---- MODULE Spec2Model ----
(***************************************************************************)
(* Document Q&A service (src/pro/main.py): the documents table, the four   *)
(* request handlers that read and write it, and the cosine best-match      *)
(* scan of /ask.  Every handler runs as two steps: the synchronous prefix  *)
(* up to its first database await (validation, embedding), and the         *)
(* database statement together with the code that builds the response.     *)
(* Requests of different clients interleave at those await points.         *)
(***************************************************************************)
EXTENDS Integers, Sequences, FiniteSets, TLC

\* ------------------------------------------------------------------ bounds
MaxRequests == 3         \* requests received in one run

\* Two connections, so that two requests can be in flight at the same time
Clients == {"c1", "c2"}

\* ------------------------------------------------------------------ inputs
Ids == {"d1", "d2"}

\* Texts, named after the embedding the model gives them: document contents
\* and questions
Contents == {"east", "diag", "zero"}
Questions == {"east", "west", "zero"}

\* ------------------------------------------------------- embedding, cosine
\* embedding_model.encode: a deterministic map from text to a vector of fixed
\* length.  The vectors are chosen with integer norms, so that the float64
\* quotient the code computes orders exactly as the rational num/den does.
encode(text) ==
  CASE text = "east" -> <<1, 0>>
    [] text = "west" -> <<-1, 0>>
    [] text = "diag" -> <<3, 4>>
    [] text = "zero" -> <<0, 0>>

\* np.dot
dot(a, b) == a[1] * b[1] + a[2] * b[2]

\* np.linalg.norm (exact on the vectors of encode)
norm(a) == CHOOSE n \in 0..(dot(a, a)) : n * n = dot(a, a)

\* cosine_similarity: the quotient dot / (norm * norm) as the pair num/den.
\* den = 0 is the float nan that numpy's 0.0/0.0 yields (a warning, no raise).
cosine_similarity(a, b) == [num |-> dot(a, b), den |-> norm(a) * norm(b)]

IsNaN(s) == s.den = 0

\* Python's  s > t  on floats: False whenever either side is nan
Greater(s, t) == /\ ~IsNaN(s)
                 /\ ~IsNaN(t)
                 /\ s.num * t.den > t.num * s.den

\* best_score = -1
InitialBestScore == [num |-> -1, den |-> 1]

\* The loop of ask_question over docs[i..]: best_doc is an index into docs,
\* 0 standing for None.
RECURSIVE BestMatch(_, _, _, _, _)
BestMatch(docs_, q, i, best_score, best_doc) ==
  IF i > Len(docs_) THEN [best_score |-> best_score, best_doc |-> best_doc]
  ELSE LET score == cosine_similarity(q, docs_[i].embedding)
       IN IF Greater(score, best_score)
            THEN BestMatch(docs_, q, i + 1, score, i)
            ELSE BestMatch(docs_, q, i + 1, best_score, best_doc)

\* ------------------------------------------------------------------- state
VARIABLES
  documents,   \* the documents table: rows in the order they were inserted
  now,         \* the wall clock read by datetime.utcnow()
  pc,          \* per client: "idle", "db" (awaiting the statement), "done"
  req,         \* per client: the request being handled
  embedding,   \* per client: the vector encode() returned to the handler
  docs,        \* per client: the rows the handler's query fetched
  resp,        \* per client: the HTTP response of the finished request
  acked,       \* history: <<id, content>> of every 201 ingest, in order
  seen,        \* history: per client, Len(acked) when its request arrived
  nreq         \* requests received so far

vars == <<documents, now, pc, req, embedding, docs, resp, acked, seen, nreq>>

NoScore == [num |-> 0, den |-> 0]
NoVector == <<0, 0>>
NoRequest == [op |-> "none", id |-> "", text |-> "", has_ids |-> FALSE, document_ids |-> {}]
NoResponse == [status |-> 0, detail |-> "", id |-> "", content |-> "",
               score |-> NoScore, items |-> <<>>]

Http(status, detail, id) ==
  [status |-> status, detail |-> detail, id |-> id, content |-> "",
   score |-> NoScore, items |-> <<>>]

\* ------------------------------------------------------------ the database
HasId(table, id) == \E i \in 1..Len(table) : table[i].id = id

\* Mutant: the INSERT written as an upsert (ON CONFLICT (id) DO UPDATE)
InsertRow_upsert(table, row) ==
  [ok |-> TRUE,
   table |-> IF HasId(table, row.id)
               THEN [i \in 1..Len(table) |-> IF table[i].id = row.id THEN row ELSE table[i]]
               ELSE Append(table, row)]

\* Mutant: the table created without the PRIMARY KEY constraint
InsertRow_no_primary_key(table, row) == [ok |-> TRUE, table |-> Append(table, row)]

\* INSERT INTO documents ... under id TEXT PRIMARY KEY: the row is added when
\* the key is free, and the statement raises UniqueViolationError otherwise.
InsertRow(table, row) ==
  IF HasId(table, row.id)
    THEN [ok |-> FALSE, table |-> table]
    ELSE [ok |-> TRUE, table |-> Append(table, row)]

\* SELECT ... WHERE id = $1 (fetchrow): the rows with that key, at most one
SelectById(table, id) == SelectSeq(table, LAMBDA r : r.id = id)

\* Mutant: an empty id list taken to mean no filter at all
SelectAny_empty_means_all(table, ids) ==
  IF ids = {} THEN table ELSE SelectSeq(table, LAMBDA r : r.id \in ids)

\* Mutant: the query without its WHERE clause
SelectAny_no_where(table, ids) == table

\* SELECT ... WHERE id = ANY($1): the matching rows, in table order
SelectAny(table, ids) == SelectSeq(table, LAMBDA r : r.id \in ids)

\* SQL fixes no order for a query without ORDER BY: any order of the rows
Orderings(rows) ==
  {s \in [1..Len(rows) -> 1..Len(rows)] :
      \A i, j \in 1..Len(rows) : i # j => s[i] # s[j]}

Permute(rows, s) == [i \in 1..Len(rows) |-> rows[s[i]]]

\* Mutant: the newest row alone (fetchrow in place of fetch)
OrderByCreatedAtDesc_fetchrow(rows) ==
  IF Len(rows) = 0 THEN <<>> ELSE <<rows[Len(rows)]>>

\* SELECT ... ORDER BY created_at DESC
RECURSIVE OrderByCreatedAtDesc(_)
OrderByCreatedAtDesc(rows) ==
  IF Len(rows) = 0 THEN <<>>
  ELSE LET m == CHOOSE i \in 1..Len(rows) :
                  \A j \in 1..Len(rows) : rows[j].created_at <= rows[i].created_at
           rest == [k \in 1..(Len(rows) - 1) |-> IF k < m THEN rows[k] ELSE rows[k + 1]]
       IN <<rows[m]>> \o OrderByCreatedAtDesc(rest)

Item(row) == [id |-> row.id, content |-> row.content, created_at |-> row.created_at]

\* --------------------------------------------------------- except clauses
\* An exception raised in a handler body: HTTPException carries a status,
\* anything else (TypeError, ...) does not.
HTTPException(status, detail, id) == [http |-> TRUE, status |-> status, detail |-> detail, id |-> id]
OtherError(id) == [http |-> FALSE, status |-> 0, detail |-> "", id |-> id]

\* get_document:  except Exception  catches every exception of the body,
\* the HTTPException the body raises included
get_document_except(e) == Http(500, "Error retrieving document", e.id)

\* Mutant: ask_question without its  except HTTPException: raise  clause
ask_question_except_no_reraise(e) == Http(500, "Error processing question", e.id)

\* ask_question:  except HTTPException: raise  comes before  except Exception
ask_question_except(e) ==
  IF e.http THEN Http(e.status, e.detail, e.id)
  ELSE Http(500, "Error processing question", e.id)

\* ----------------------------------------------------------------- actions
Receive(c, r) ==
  /\ pc[c] \in {"idle", "done"}
  /\ nreq < MaxRequests
  /\ nreq' = nreq + 1
  /\ req' = [req EXCEPT ![c] = r]
  /\ seen' = [seen EXCEPT ![c] = Len(acked)]
  /\ docs' = [docs EXCEPT ![c] = <<>>]

\* POST /ingest up to the INSERT: encode(doc.content)
ReceiveIngest(c) ==
  \E id \in Ids, content \in Contents :
    /\ Receive(c, [op |-> "ingest", id |-> id, text |-> content,
                   has_ids |-> FALSE, document_ids |-> {}])
    /\ embedding' = [embedding EXCEPT ![c] = encode(content)]
    /\ pc' = [pc EXCEPT ![c] = "db"]
    /\ resp' = [resp EXCEPT ![c] = NoResponse]
    /\ UNCHANGED <<documents, now, acked>>

\* POST /ingest from the INSERT on
ingest_document(c) ==
  /\ pc[c] = "db" /\ req[c].op = "ingest"
  /\ LET row == [id |-> req[c].id, content |-> req[c].text,
                 embedding |-> embedding[c], created_at |-> now]
         ins == InsertRow(documents, row)
     IN /\ documents' = ins.table
        /\ IF ins.ok
             THEN /\ resp' = [resp EXCEPT ![c] =
                                Http(201, "Document ingested successfully", req[c].id)]
                  /\ acked' = Append(acked, <<req[c].id, req[c].text>>)
             ELSE /\ resp' = [resp EXCEPT ![c] =
                                Http(400, "already exists", req[c].id)]
                  /\ acked' = acked
  /\ now' = now + 1
  /\ pc' = [pc EXCEPT ![c] = "done"]
  /\ UNCHANGED <<req, embedding, docs, seen, nreq>>

\* GET /documents/{doc_id} up to the SELECT
ReceiveGet(c) ==
  \E id \in Ids :
    /\ Receive(c, [op |-> "get", id |-> id, text |-> "",
                   has_ids |-> FALSE, document_ids |-> {}])
    /\ embedding' = [embedding EXCEPT ![c] = NoVector]
    /\ pc' = [pc EXCEPT ![c] = "db"]
    /\ resp' = [resp EXCEPT ![c] = NoResponse]
    /\ UNCHANGED <<documents, now, acked>>

\* GET /documents/{doc_id} from the SELECT on
get_document(c) ==
  /\ pc[c] = "db" /\ req[c].op = "get"
  /\ LET found == SelectById(documents, req[c].id)
     IN /\ docs' = [docs EXCEPT ![c] = found]
        /\ resp' = [resp EXCEPT ![c] =
             IF Len(found) = 0
               THEN get_document_except(HTTPException(404, "not found", req[c].id))
               ELSE [Http(200, "", found[1].id) EXCEPT !.content = found[1].content]]
  /\ pc' = [pc EXCEPT ![c] = "done"]
  /\ UNCHANGED <<documents, now, req, embedding, acked, seen, nreq>>

\* GET /documents up to the SELECT
ReceiveList(c) ==
  /\ Receive(c, [op |-> "list", id |-> "", text |-> "",
                 has_ids |-> FALSE, document_ids |-> {}])
  /\ embedding' = [embedding EXCEPT ![c] = NoVector]
  /\ pc' = [pc EXCEPT ![c] = "db"]
  /\ resp' = [resp EXCEPT ![c] = NoResponse]
  /\ UNCHANGED <<documents, now, acked>>

\* GET /documents from the SELECT on
get_all_documents(c) ==
  /\ pc[c] = "db" /\ req[c].op = "list"
  /\ LET rows == OrderByCreatedAtDesc(documents)
     IN resp' = [resp EXCEPT ![c] =
          [Http(200, "", "") EXCEPT !.items = [i \in 1..Len(rows) |-> Item(rows[i])]]]
  /\ pc' = [pc EXCEPT ![c] = "done"]
  /\ UNCHANGED <<documents, now, req, embedding, docs, acked, seen, nreq>>

\* POST /ask up to the SELECT: the Question model requires document_ids (a
\* body without it is answered 422 before the handler runs), then
\* encode(question.question)
ReceiveAsk(c) ==
  \E question \in Questions, has_ids \in BOOLEAN, ids \in SUBSET Ids :
    /\ has_ids \/ ids = {}
    /\ Receive(c, [op |-> "ask", id |-> "", text |-> question,
                   has_ids |-> has_ids, document_ids |-> ids])
    /\ IF has_ids
         THEN /\ embedding' = [embedding EXCEPT ![c] = encode(question)]
              /\ pc' = [pc EXCEPT ![c] = "db"]
              /\ resp' = [resp EXCEPT ![c] = NoResponse]
         ELSE /\ embedding' = [embedding EXCEPT ![c] = NoVector]
              /\ pc' = [pc EXCEPT ![c] = "done"]
              /\ resp' = [resp EXCEPT ![c] = Http(422, "validation", "")]
    /\ UNCHANGED <<documents, now, acked>>

\* The body of ask_question once docs is fetched
AskResponse(docs_, q) ==
  IF Len(docs_) = 0
    THEN ask_question_except(HTTPException(404, "No documents found", ""))
    ELSE LET best == BestMatch(docs_, q, 1, InitialBestScore, 0)
         IN IF best.best_doc = 0
              \* best_doc['content'] with best_doc None: TypeError
              THEN ask_question_except(OtherError(""))
              ELSE [Http(200, "", docs_[best.best_doc].id) EXCEPT
                      !.content = docs_[best.best_doc].content,
                      !.score = best.best_score]

\* POST /ask from the SELECT on
ask_question(c) ==
  /\ pc[c] = "db" /\ req[c].op = "ask"
  /\ LET rows == SelectAny(documents, req[c].document_ids)
     IN \E s \in Orderings(rows) :
          /\ docs' = [docs EXCEPT ![c] = Permute(rows, s)]
          /\ resp' = [resp EXCEPT ![c] = AskResponse(Permute(rows, s), embedding[c])]
  /\ pc' = [pc EXCEPT ![c] = "done"]
  /\ UNCHANGED <<documents, now, req, embedding, acked, seen, nreq>>

Init ==
  /\ documents = <<>>
  /\ now = 1
  /\ pc = [c \in Clients |-> "idle"]
  /\ req = [c \in Clients |-> NoRequest]
  /\ embedding = [c \in Clients |-> NoVector]
  /\ docs = [c \in Clients |-> <<>>]
  /\ resp = [c \in Clients |-> NoResponse]
  /\ acked = <<>>
  /\ seen = [c \in Clients |-> 0]
  /\ nreq = 0

Next ==
  \E c \in Clients :
    \/ ReceiveIngest(c)
    \/ ingest_document(c)
    \/ ReceiveGet(c)
    \/ get_document(c)
    \/ ReceiveList(c)
    \/ get_all_documents(c)
    \/ ReceiveAsk(c)
    \/ ask_question(c)

Spec == Init /\ [][Next]_vars

\* ------------------------------------------------------- reading the state
Done(c, op) == pc[c] = "done" /\ req[c].op = op

\* The step of client c that runs the database statement of an op request
Step(c, op) == pc[c] = "db" /\ req[c].op = op /\ pc'[c] = "done"

AckedIds == {acked[i][1] : i \in 1..Len(acked)}
AcksOf(id) == {i \in 1..Len(acked) : acked[i][1] = id}
FirstAck(id) == acked[CHOOSE i \in AcksOf(id) : \A j \in AcksOf(id) : i <= j][2]

\* No ingest of the id of c's request had been answered 201 when it arrived
NoAckBefore(c) == \A i \in 1..seen[c] : acked[i][1] # req[c].id

\* The score the scan of client c computed for its i-th candidate
ScoreOf(c, i) == cosine_similarity(embedding[c], docs[c][i].embedding)

\* Candidate i of client c holds the maximum of the defined scores
IsMax(c, i) ==
  /\ ~IsNaN(ScoreOf(c, i))
  /\ \A j \in 1..Len(docs[c]) : ~Greater(ScoreOf(c, j), ScoreOf(c, i))

SameScore(s, t) == ~IsNaN(s) /\ ~IsNaN(t) /\ s.num * t.den = t.num * s.den

\* ------------------------------------------------------------------ claims

\* C1: after any sequence of ingests the table holds exactly one row for every
\* id that was ingested with success and none for any other id, the row carries
\* the content of the first successful ingest of the id, and an ingest of an id
\* that is already in the table is answered 400 naming the id and leaves the
\* table as it was.
C1_OneRecordPerId ==
  /\ [](\A id \in Ids :
          IF id \in AckedIds
            THEN /\ Len(SelectById(documents, id)) = 1
                 /\ SelectById(documents, id)[1].content = FirstAck(id)
            ELSE Len(SelectById(documents, id)) = 0)
  /\ [][\A c \in Clients :
          (Step(c, "ingest") /\ HasId(documents, req[c].id)) =>
             /\ resp'[c].status = 400
             /\ resp'[c].detail = "already exists"
             /\ resp'[c].id = req[c].id
             /\ documents' = documents]_vars

\* A second ingest of a stored id, with another content, was refused and the
\* first content is still the stored one
C1_Witness ==
  \E c \in Clients :
    /\ Done(c, "ingest")
    /\ resp[c].status = 400
    /\ Len(SelectById(documents, req[c].id)) = 1
    /\ SelectById(documents, req[c].id)[1].content # req[c].text

\* C2: of the ingests of one id that run concurrently exactly one is answered
\* 201: the log of successes never holds the id twice, no two finished ingests
\* of the id are both 201, every finished ingest of the id that did not win is
\* answered 400 naming the id, and the stored content is the winner's.
C2_ExactlyOneConcurrentIngestWins ==
  /\ \A id \in Ids : Cardinality(AcksOf(id)) <= 1
  /\ \A c \in Clients :
       Done(c, "ingest") =>
         /\ Cardinality(AcksOf(req[c].id)) = 1
         /\ Len(SelectById(documents, req[c].id)) = 1
         /\ SelectById(documents, req[c].id)[1].content = FirstAck(req[c].id)
         /\ \/ resp[c].status = 201
            \/ resp[c].status = 400 /\ resp[c].id = req[c].id
         /\ resp[c].status = 201 => req[c].text = FirstAck(req[c].id)
  /\ \A c1, c2 \in Clients :
       (c1 # c2 /\ Done(c1, "ingest") /\ Done(c2, "ingest") /\ req[c1].id = req[c2].id)
         => ~(resp[c1].status = 201 /\ resp[c2].status = 201)

\* Two ingests of one id with different contents were in flight together (both
\* arrived before any success for the id): one won, one lost, the winner's
\* content is stored
C2_Witness ==
  \E c1, c2 \in Clients :
    /\ c1 # c2
    /\ Done(c1, "ingest") /\ Done(c2, "ingest")
    /\ req[c1].id = req[c2].id
    /\ req[c1].text # req[c2].text
    /\ NoAckBefore(c1) /\ NoAckBefore(c2)
    /\ resp[c1].status = 201 /\ resp[c2].status = 400
    /\ SelectById(documents, req[c1].id)[1].content = req[c1].text

\* C3: a getDocument for an id that is not in the table is answered 404, never
\* the 500 of a storage or internal failure.
C3_MissingDocumentIs404 ==
  \A c \in Clients :
    (Done(c, "get") /\ ~HasId(documents, req[c].id)) =>
       resp[c].status = 404 /\ resp[c].status # 500

\* C4: an ask whose document_ids match no row of the table (none of the ids is
\* stored, or the table is empty) is answered 404 "No documents found": not a
\* 500, and no answer.
C4_NoCandidatesIs404 ==
  [][\A c \in Clients :
       (Step(c, "ask") /\ SelectAny(documents, req[c].document_ids) = <<>>) =>
          /\ resp'[c] = Http(404, "No documents found", "")
          /\ docs'[c] = <<>>]_vars

\* An ask that names ids, none of them stored while the table holds other
\* rows, ended 404
C4_Witness ==
  \E c \in Clients :
    /\ Done(c, "ask")
    /\ req[c].document_ids # {}
    /\ seen[c] > 0
    /\ SelectAny(documents, req[c].document_ids) = <<>>
    /\ resp[c].status = 404
    /\ resp[c].detail = "No documents found"

C6_NonEmptyCandidatesGiveBest ==
  \A c \in Clients :
    (/\ Done(c, "ask")
     /\ Len(docs[c]) > 0
     /\ norm(embedding[c]) # 0
     /\ \A i \in 1..Len(docs[c]) : norm(docs[c][i].embedding) # 0) =>
       /\ resp[c].status = 200
       /\ \E i \in 1..Len(docs[c]) :
            /\ IsMax(c, i)
            /\ resp[c].id = docs[c][i].id
            /\ resp[c].content = docs[c][i].content
            /\ resp[c].score = ScoreOf(c, i)

\* C7: once an ingest of id d with content c was answered 201, a getDocument(d)
\* that arrives later is answered 200 with content c, a listDocuments that
\* arrives later lists d, and an ask that arrives later and names d has d among
\* its candidates, whatever other requests are in flight.
C7_ReadsSeeAcknowledgedIngests ==
  \A c \in Clients : \A i \in 1..seen[c] :
    /\ (Done(c, "get") /\ req[c].id = acked[i][1]) =>
          /\ resp[c].status = 200
          /\ resp[c].id = acked[i][1]
          /\ resp[c].content = acked[i][2]
    /\ Done(c, "list") =>
          \E k \in 1..Len(resp[c].items) :
            /\ resp[c].items[k].id = acked[i][1]
            /\ resp[c].items[k].content = acked[i][2]
    /\ (Done(c, "ask") /\ acked[i][1] \in req[c].document_ids) =>
          \E k \in 1..Len(docs[c]) :
            /\ docs[c][k].id = acked[i][1]
            /\ docs[c][k].content = acked[i][2]

\* A getDocument that arrived after the 201 of its id returned the content
\* while an ingest of the same id with another content was in flight
C7_Witness ==
  \E c, c2 \in Clients :
    /\ Done(c, "get")
    /\ \E i \in 1..seen[c] : acked[i][1] = req[c].id
    /\ resp[c].status = 200
    /\ pc[c2] = "db" /\ req[c2].op = "ingest"
    /\ req[c2].id = req[c].id
    /\ req[c2].text # resp[c].content

\* C8: an ask with document_ids fetches exactly the rows of the table whose id
\* is in document_ids, as many as there are stored ids among them; ids that are
\* not stored bring no error: with a stored id among them the ask is not
\* answered 404, and it is answered 200 as soon as one candidate scores
\* above -1.
C8_UnknownIdsAreOmitted ==
  [][\A c \in Clients :
       Step(c, "ask") =>
         LET stored == {id \in req[c].document_ids : HasId(documents, id)}
             fetched == docs'[c]
         IN /\ Len(fetched) = Cardinality(stored)
            /\ {fetched[k] : k \in 1..Len(fetched)} =
                 {documents[k] : k \in {j \in 1..Len(documents) : documents[j].id \in stored}}
            /\ stored # {} => resp'[c].status # 404
            /\ (\E k \in 1..Len(fetched) :
                  Greater(cosine_similarity(embedding[c], fetched[k].embedding),
                          InitialBestScore))
                 => resp'[c].status = 200]_vars

\* An ask naming two ids of which one is stored fetched that one row and
\* answered with it
C8_Witness ==
  \E c \in Clients :
    /\ Done(c, "ask")
    /\ Cardinality(req[c].document_ids) = 2
    /\ Len(docs[c]) = 1
    /\ Len(documents) = 1
    /\ resp[c].status = 200
    /\ resp[c].id = docs[c][1].id

\* C9: when two or more candidates tie on the maximum score, the ask returns
\* the first of them in the order fetched.
C9_FirstOfTiedWins ==
  \A c \in Clients :
    (/\ Done(c, "ask")
     /\ \E i, j \in 1..Len(docs[c]) :
          i # j /\ IsMax(c, i) /\ IsMax(c, j)) =>
       LET first == CHOOSE i \in 1..Len(docs[c]) :
                      IsMax(c, i) /\ \A j \in 1..Len(docs[c]) : IsMax(c, j) => i <= j
       IN /\ resp[c].status = 200
          /\ resp[c].id = docs[c][first].id

\* C10: an ask with a comparison of undefined score (the query vector or a
\* candidate vector of zero magnitude) does not end in an internal error: a
\* candidate of undefined score is never the one returned, a candidate of
\* defined score is returned when there is one, and the ask is answered 200 or
\* 404 when there is none.
C10_UndefinedScoresDoNotCrash ==
  \A c \in Clients :
    (/\ Done(c, "ask")
     /\ Len(docs[c]) > 0
     /\ \E i \in 1..Len(docs[c]) : IsNaN(ScoreOf(c, i))) =>
       /\ resp[c].status \in {200, 404}
       /\ resp[c].status = 200 =>
            \E i \in 1..Len(docs[c]) : ~IsNaN(ScoreOf(c, i)) /\ resp[c].id = docs[c][i].id
       /\ (\E i \in 1..Len(docs[c]) : ~IsNaN(ScoreOf(c, i))) => resp[c].status = 200

====
